---- MODULE Spec2Model ----
(***************************************************************************)
(* Address book of src/answer.py: typed fields (DataField and subclasses), *)
(* the field registry and decoder, Contact and AddressBook.                *)
(*                                                                         *)
(* Python strings are modelled as sequences of one-character strings, so   *)
(* that the regular expressions, the date parser, int() and the substring  *)
(* test are computed character by character.  A Python dict read with      *)
(* d["key"] is a record, and a missing key is a field the record lacks.    *)
(***************************************************************************)
EXTENDS Integers, Sequences, FiniteSets, TLC

(***************************************************************************)
(* Bounds of the model.                                                    *)
(***************************************************************************)
MaxId == 3        \* add is not taken once last_contact_id reaches MaxId
MaxDocLen == 2    \* contact entries in a document given to loads
MaxFields == 2    \* fields of the Contact object of SpecContact

\* Python's None where a string is expected (no string has this element)
None == <<"None">>
\* "no exception was raised"
NoExc == "NoExc"

(***************************************************************************)
(* Characters and strings.                                                 *)
(***************************************************************************)
Digits == {"0", "1", "2", "3", "4", "5", "6", "7", "8", "9"}

DigitVal(c) ==
    CASE c = "0" -> 0 [] c = "1" -> 1 [] c = "2" -> 2 [] c = "3" -> 3
      [] c = "4" -> 4 [] c = "5" -> 5 [] c = "6" -> 6 [] c = "7" -> 7
      [] c = "8" -> 8 [] c = "9" -> 9

DigitChar(d) ==
    CASE d = 0 -> "0" [] d = 1 -> "1" [] d = 2 -> "2" [] d = 3 -> "3"
      [] d = 4 -> "4" [] d = 5 -> "5" [] d = 6 -> "6" [] d = 7 -> "7"
      [] d = 8 -> "8" [] d = 9 -> "9"

\* s[a..b] as a string, empty when b < a
Slice(s, a, b) == SubSeq(s, a, b)

AllDigits(s, a, b) == \A i \in a..b : s[i] \in Digits

RECURSIVE DecimalValue(_)
DecimalValue(s) ==
    IF s = <<>> THEN 0
    ELSE 10 * DecimalValue(Slice(s, 1, Len(s) - 1)) + DigitVal(s[Len(s)])

\* str.replace(" ", "")
RECURSIVE RemoveSpaces(_)
RemoveSpaces(s) ==
    IF s = <<>> THEN <<>>
    ELSE IF Head(s) = " " THEN RemoveSpaces(Tail(s))
    ELSE <<Head(s)>> \o RemoveSpaces(Tail(s))

\* Python's "item in value" on two strings
StrContains(value, item) ==
    \E i \in 1..(Len(value) + 1) :
        /\ i + Len(item) - 1 <= Len(value)
        /\ Slice(value, i, i + Len(item) - 1) = item

\* str.join
RECURSIVE Join(_, _)
Join(sep, parts) ==
    IF parts = <<>> THEN <<>>
    ELSE IF Len(parts) = 1 THEN parts[1]
    ELSE parts[1] \o sep \o Join(sep, Tail(parts))

\* the one-character strings of a string, as str.join sees them
RECURSIVE Chars(_)
Chars(s) == IF s = <<>> THEN <<>> ELSE <<(<<Head(s)>>)>> \o Chars(Tail(s))

(***************************************************************************)
(* Exceptions: the class and, for IncorrectInput, which raise statement.   *)
(***************************************************************************)
NoPhoneFound == "IncorrectInput: No phone number found"
OperatorNotFound == "IncorrectInput: Operator code not found"
NotAnEmail == "IncorrectInput: is not an email"
NotADate == "IncorrectInput: is not a date"
IndexNotInteger == "IncorrectInput: Index value is not integer!"
FieldDecodeError == "FieldDecodeError"
ValueError == "ValueError"
TypeError == "TypeError"
IndexError == "IndexError"
KeyError == "KeyError"

\* the messages IncorrectInput is raised with by the field validators
ValidationErrors == {NoPhoneFound, OperatorNotFound, NotAnEmail, NotADate}

(***************************************************************************)
(* Field validation.  A validator returns [exc, value]: the exception it   *)
(* raises (NoExc when it returns) and the value it stores in self.value.    *)
(***************************************************************************)
Ok(v) == [exc |-> NoExc, value |-> v]
Raise(e) == [exc |-> e, value |-> None]

\* DataField.validate, inherited by NameField and NoteField
DataFieldValidate(value) == Ok(value)

\* PHONE_REGEX = ^\+?(\d{2})?\(?(0\d{2})\)?(\d{7}$) : the ways it matches v.
\* A match is <<plus, cc, lp, rp, nl>>: the lengths taken by \+?, (\d{2})?,
\* \(?, \)? and by the newline that $ tolerates at the end of the string.
PhoneMatches(v) ==
    { m \in {0, 1} \X {0, 2} \X {0, 1} \X {0, 1} \X {0, 1} :
        LET plus == m[1]
            cc == m[2]
            lp == m[3]
            rp == m[4]
            nl == m[5]
            op == plus + cc + lp + 1
            num == op + 3 + rp
        IN  /\ Len(v) = num + 7 - 1 + nl
            /\ plus = 1 => v[1] = "+"
            /\ AllDigits(v, plus + 1, plus + cc)
            /\ lp = 1 => v[plus + cc + 1] = "("
            /\ v[op] = "0"
            /\ AllDigits(v, op + 1, op + 2)
            /\ rp = 1 => v[op + 3] = ")"
            /\ AllDigits(v, num, num + 6)
            /\ nl = 1 => v[Len(v)] = "\n" }

PhoneFieldValidate(raw) ==
    LET v == RemoveSpaces(raw)
        ms == PhoneMatches(v)
    IN  IF ms = {} THEN Raise(NoPhoneFound)
        ELSE LET m == CHOOSE x \in ms : TRUE
                 op == m[1] + m[2] + m[3] + 1
                 num == op + 3 + m[4]
                 country == IF m[2] = 0 THEN None
                            ELSE Slice(v, m[1] + 1, m[1] + 2)
                 operator == Slice(v, op, op + 2)
                 phone == Slice(v, num, num + 6)
                 country_code == IF country # None THEN country
                                 ELSE <<"3", "8">>
             IN  IF operator = None THEN Raise(OperatorNotFound)
                 ELSE Ok(<<"+">> \o country_code \o operator \o phone)

\* EMAIL_REGEX = [^@]+@[^@]+\.[^@]+ used with match(): a prefix of the value
EmailMatches(v) ==
    \E at \in 2..Len(v) : \E dot \in (at + 2)..(Len(v) - 1) :
        /\ v[at] = "@"
        /\ v[dot] = "."
        /\ \A i \in 1..(dot + 1) : i # at => v[i] # "@"

EmailFieldValidate(value) ==
    IF ~EmailMatches(value) THEN Raise(NotAnEmail) ELSE Ok(value)

IsLeap(y) == (y % 4 = 0 /\ y % 100 # 0) \/ y % 400 = 0

DaysInMonth(y, m) ==
    IF m = 2 THEN (IF IsLeap(y) THEN 29 ELSE 28)
    ELSE IF m \in {4, 6, 9, 11} THEN 30 ELSE 31

\* %d of strptime: 3[0-1]|[1-2]\d|0[1-9]|[1-9]| [1-9]
DayToken(t) ==
    \/ Len(t) = 2 /\ t[1] = "3" /\ t[2] \in {"0", "1"}
    \/ Len(t) = 2 /\ t[1] \in {"1", "2"} /\ t[2] \in Digits
    \/ Len(t) = 2 /\ t[1] \in {"0", " "} /\ t[2] \in Digits \ {"0"}
    \/ Len(t) = 1 /\ t[1] \in Digits \ {"0"}

\* %m of strptime: 1[0-2]|0[1-9]|[1-9]
MonthToken(t) ==
    \/ Len(t) = 2 /\ t[1] = "1" /\ t[2] \in {"0", "1", "2"}
    \/ Len(t) = 2 /\ t[1] = "0" /\ t[2] \in Digits \ {"0"}
    \/ Len(t) = 1 /\ t[1] \in Digits \ {"0"}

\* datetime.strptime(value, '%d.%m.%Y') returns a datetime (TRUE) or raises
\* ValueError (FALSE)
StrptimeParses(v) ==
    \E dl \in {1, 2} : \E ml \in {1, 2} :
        LET d == Slice(v, 1, dl)
            m == Slice(v, dl + 2, dl + 1 + ml)
            y == Slice(v, dl + ml + 3, dl + ml + 6)
        IN  /\ Len(v) = dl + ml + 6
            /\ v[dl + 1] = "."
            /\ v[dl + ml + 2] = "."
            /\ DayToken(d)
            /\ MonthToken(m)
            /\ AllDigits(y, 1, 4)
            /\ DecimalValue(y) >= 1
            /\ DecimalValue(RemoveSpaces(d))
                   <= DaysInMonth(DecimalValue(y), DecimalValue(m))

\* BirthdayField.validate: strptime raises before the "if not" is evaluated,
\* and what it returns is never false
BirthdayFieldValidate(value) ==
    IF ~StrptimeParses(value) THEN Raise(ValueError) ELSE Ok(value)

Name == "Name"
Phone == "Phone"
Email == "Email"
Birthday == "Birthday"
Note == "Note"

\* the keys of REGISTERED_FIELDS
REGISTERED_FIELDS == {Name, Phone, Email, Birthday, Note}

\* field.validate(value) of the class registered under field_description
Validate(field_description, value) ==
    CASE field_description = Phone -> PhoneFieldValidate(value)
      [] field_description = Email -> EmailFieldValidate(value)
      [] field_description = Birthday -> BirthdayFieldValidate(value)
      [] OTHER -> DataFieldValidate(value)

\* DataField.__init__ / PhoneField.__init__: [exc, field]
NewField(field_description, value) ==
    LET r == Validate(field_description, value)
    IN  [exc |-> r.exc,
         field |-> IF r.exc = NoExc
                   THEN [field_description |-> field_description,
                         value |-> r.value]
                   ELSE None]

(***************************************************************************)
(* Indices.  An index or id argument is an int ([int |-> i]) or a string   *)
(* ([str |-> s]), as the caller passes it.                                 *)
(***************************************************************************)
IsInt(x) == "int" \in DOMAIN x

RECURSIVE Strip(_)
\* str.strip() for the space character
Strip(s) ==
    IF s = <<>> THEN s
    ELSE IF Head(s) = " " THEN Strip(Tail(s))
    ELSE IF s[Len(s)] = " " THEN Strip(SubSeq(s, 1, Len(s) - 1))
    ELSE s

\* int(x): [exc, value]; a string is stripped, then sign and decimal digits
PyInt(x) ==
    IF IsInt(x) THEN [exc |-> NoExc, value |-> x.int]
    ELSE LET t == Strip(x.str)
             signed == t # <<>> /\ Head(t) \in {"+", "-"}
             body == IF signed THEN Tail(t) ELSE t
         IN  IF body # <<>> /\ AllDigits(body, 1, Len(body))
             THEN [exc |-> NoExc,
                   value |-> IF signed /\ Head(t) = "-"
                             THEN 0 - DecimalValue(body)
                             ELSE DecimalValue(body)]
             ELSE [exc |-> ValueError, value |-> 0]

\* the position (from 1) a Python list of length n gives index i, 0 when the
\* list raises IndexError; a negative index counts from the end
ListPos(i, n) ==
    IF 0 <= i /\ i < n THEN i + 1
    ELSE IF 0 - n <= i /\ i < 0 THEN n + i + 1
    ELSE 0

\* index_error_decorator, applied to the exception the wrapped method raised
index_error_decorator(exc) == IF exc = ValueError THEN IndexNotInteger ELSE exc

(***************************************************************************)
(* Contact.  The value of a Contact is self.fields, a sequence of fields   *)
(* [field_description, value].  A method returns [exc, fields, ret].       *)
(***************************************************************************)
Result(exc, fields, ret) == [exc |-> exc, fields |-> fields, ret |-> ret]

\* Contact.add: the field objects of a contact are distinct objects, so
\* fields.index finds the appended one at the end
ContactAdd(fields, field_item) ==
    Result(NoExc, Append(fields, field_item), Len(fields))

\* Contact.replace: no int() here, a string index makes the list raise
\* TypeError, which the decorator lets through
ContactReplace(fields, index, field_item) ==
    IF ~IsInt(index)
    THEN Result(index_error_decorator(TypeError), fields, None)
    ELSE LET p == ListPos(index.int, Len(fields))
         IN  IF p = 0
             THEN Result(index_error_decorator(IndexError), fields, None)
             ELSE Result(NoExc, [fields EXCEPT ![p] = field_item], None)

RemoveAt(s, p) == SubSeq(s, 1, p - 1) \o SubSeq(s, p + 1, Len(s))

\* Contact.delete
ContactDelete(fields, idx) ==
    LET n == PyInt(idx)
        p == ListPos(n.value, Len(fields))
    IN  IF n.exc # NoExc
        THEN Result(index_error_decorator(n.exc), fields, None)
        ELSE IF p = 0
        THEN Result(index_error_decorator(IndexError), fields, None)
        ELSE Result(NoExc, RemoveAt(fields, p), None)

\* Contact.update
ContactUpdate(fields, field_idx, value) ==
    LET n == PyInt(field_idx)
        p == ListPos(n.value, Len(fields))
        v == Validate(fields[p].field_description, value)
    IN  IF n.exc # NoExc
        THEN Result(index_error_decorator(n.exc), fields, None)
        ELSE IF p = 0
        THEN Result(index_error_decorator(IndexError), fields, None)
        ELSE IF v.exc # NoExc
        THEN Result(index_error_decorator(v.exc), fields, None)
        ELSE Result(NoExc, [fields EXCEPT ![p].value = v.value], None)

\* the values of the fields of one kind, in the order of self.fields
RECURSIVE FieldsOf(_, _)
FieldsOf(fields, field_name) ==
    IF fields = <<>> THEN <<>>
    ELSE IF Head(fields).field_description = field_name
    THEN <<Head(fields).value>> \o FieldsOf(Tail(fields), field_name)
    ELSE FieldsOf(Tail(fields), field_name)

\* Contact.field_search: the return inside the loop answers for the first
\* field of the kind
RECURSIVE field_search(_, _, _)
field_search(fields, field_name, search_value) ==
    IF fields = <<>> THEN FALSE
    ELSE IF Head(fields).field_description = field_name
    THEN StrContains(Head(fields).value, search_value)
    ELSE field_search(Tail(fields), field_name, search_value)

\* Contact.multiple_search; search_items is the keyword dict
multiple_search(fields, search_items) ==
    \A field_name \in DOMAIN search_items :
        field_search(fields, field_name, search_items[field_name])

\* Contact.__contains__
ContactContains(fields, item) ==
    \E i \in 1..Len(fields) : StrContains(fields[i].value, item)

\* Contact.get_birthday: falls off the end of the function without a return
get_birthday(fields) ==
    LET found == FieldsOf(fields, Birthday)
    IN  IF found # <<>> THEN found[1] ELSE None

\* Contact.get_phone
get_phone(fields) ==
    LET phones == FieldsOf(fields, Phone)
    IN  IF phones # <<>> THEN Join(<<";", " ">>, phones) ELSE <<>>

\* Contact.name
name(fields) ==
    LET names == FieldsOf(fields, Name)
        joined == IF names # <<>> THEN Join(<<" ">>, names) ELSE <<>>
        result == Join(<<" ">>, Chars(joined))
    IN  IF result # <<" ">> THEN result ELSE <<"N", "o", " ", "n", "a", "m", "e">>

\* Contact.get_mail
get_mail(fields) ==
    LET found == FieldsOf(fields, Email)
    IN  IF found # <<>> THEN found[1] ELSE <<>>

\* Contact.get_note
get_note(fields) ==
    LET found == FieldsOf(fields, Note)
    IN  IF found # <<>> THEN found[1] ELSE <<>>

(***************************************************************************)
(* Serialization.  A JSON object is the sequence of its members in         *)
(* document order; the keys of a document are distinct.                    *)
(***************************************************************************)
\* DataField.to_json writing the kind under a key field_decoder does not read
FieldToJsonOtherKey(field) ==
    [value |-> field.value, kind |-> field.field_description]

\* DataField.to_json
FieldToJson(field) ==
    [value |-> field.value, field_name |-> field.field_description]

\* Contact.to_json
RECURSIVE FieldsToJson(_)
FieldsToJson(fields) ==
    IF fields = <<>> THEN <<>>
    ELSE <<FieldToJson(Head(fields))>> \o FieldsToJson(Tail(fields))

ContactToJson(fields) == [fields |-> FieldsToJson(fields)]

\* field_decoder: [exc, field]; the KeyError of either lookup becomes
\* FieldDecodeError, what the constructor raises passes through
field_decoder(field_dict) ==
    IF \/ "field_name" \notin DOMAIN field_dict
       \/ field_dict.field_name \notin REGISTERED_FIELDS
       \/ "value" \notin DOMAIN field_dict
    THEN [exc |-> FieldDecodeError, field |-> None]
    ELSE NewField(field_dict.field_name, field_dict.value)

\* the loop of Contact.from_json over field_list, on a contact holding fields
RECURSIVE DecodeFields(_, _)
DecodeFields(field_list, fields) ==
    IF field_list = <<>> THEN Result(NoExc, fields, None)
    ELSE LET d == field_decoder(Head(field_list))
         IN  IF d.exc # NoExc THEN Result(d.exc, fields, None)
             ELSE DecodeFields(Tail(field_list),
                               ContactAdd(fields, d.field).fields)

\* Contact.from_json on a new Contact; a null or empty "fields" adds nothing
ContactFromJson(dict_contact) ==
    IF "fields" \notin DOMAIN dict_contact THEN Result(KeyError, <<>>, None)
    ELSE DecodeFields(dict_contact.fields, <<>>)

\* str(n) of a non-negative int, as json.dumps writes an int key
RECURSIVE IntToStr(_)
IntToStr(n) ==
    IF n < 10 THEN <<DigitChar(n)>>
    ELSE IntToStr(n \div 10) \o <<DigitChar(n % 10)>>

(***************************************************************************)
(* AddressBook.  self.contacts is a dict: the sequence of its items        *)
(* [id, contact] in insertion order.  A method returns                     *)
(* [exc, contacts, last_contact_id, ret, ids], ids being the ids that      *)
(* self.add returned during the call.                                      *)
(***************************************************************************)
Keys(contacts) == {contacts[i].id : i \in 1..Len(contacts)}

KeyPos(contacts, key) == CHOOSE i \in 1..Len(contacts) : contacts[i].id = key

\* self.contacts[key] = contact
DictSet(contacts, key, contact) ==
    IF key \in Keys(contacts)
    THEN [contacts EXCEPT ![KeyPos(contacts, key)].contact = contact]
    ELSE Append(contacts, [id |-> key, contact |-> contact])

BookResult(exc, contacts, next, ret, ids) ==
    [exc |-> exc, contacts |-> contacts, last_contact_id |-> next,
     ret |-> ret, ids |-> ids]

\* AddressBook.add without the increment of last_contact_id
BookAddNoIncrement(contacts, next, contact) ==
    BookResult(NoExc, DictSet(contacts, next, contact), next, next, <<next>>)

\* AddressBook.add
BookAdd(contacts, next, contact) ==
    BookResult(NoExc, DictSet(contacts, next, contact), next + 1, next,
               <<next>>)

\* AddressBook.replace
BookReplace(contacts, next, contact_id, contact) ==
    IF contact_id \notin Keys(contacts)
    THEN BookResult(KeyError, contacts, next, None, <<>>)
    ELSE BookResult(NoExc, DictSet(contacts, contact_id, contact), next,
                    None, <<>>)

\* AddressBook.delete giving the deleted id back to the counter
BookDeleteReusesId(contacts, next, contact_id) ==
    LET key == PyInt(contact_id)
    IN  IF key.exc # NoExc
        THEN BookResult(index_error_decorator(key.exc), contacts, next,
                        None, <<>>)
        ELSE IF key.value \notin Keys(contacts)
        THEN BookResult(index_error_decorator(KeyError), contacts, next,
                        None, <<>>)
        ELSE BookResult(NoExc, RemoveAt(contacts, KeyPos(contacts, key.value)),
                        key.value, None, <<>>)

\* AddressBook.delete
BookDelete(contacts, next, contact_id) ==
    LET key == PyInt(contact_id)
    IN  IF key.exc # NoExc
        THEN BookResult(index_error_decorator(key.exc), contacts, next,
                        None, <<>>)
        ELSE IF key.value \notin Keys(contacts)
        THEN BookResult(index_error_decorator(KeyError), contacts, next,
                        None, <<>>)
        ELSE BookResult(NoExc, RemoveAt(contacts, KeyPos(contacts, key.value)),
                        next, None, <<>>)

\* AddressBook.clear
BookClear(contacts, next) == BookResult(NoExc, <<>>, 0, None, <<>>)

\* AddressBook.dumps: the members of the JSON object json.dumps writes
RECURSIVE BookDumps(_)
BookDumps(contacts) ==
    IF contacts = <<>> THEN <<>>
    ELSE <<[key |-> IntToStr(Head(contacts).id),
            value |-> ContactToJson(Head(contacts).contact)]>>
         \o BookDumps(Tail(contacts))

\* the for loop of AddressBook.loads over the items of json_contacts
RECURSIVE LoadsItems(_, _, _, _)
LoadsItems(items, contacts, next, ids) ==
    IF items = <<>> THEN BookResult(NoExc, contacts, next, None, ids)
    ELSE LET c == ContactFromJson(Head(items).value)
             a == BookAdd(contacts, next, c.fields)
         IN  IF c.exc # NoExc
             THEN BookResult(c.exc, contacts, next, None, ids)
             ELSE LoadsItems(Tail(items), a.contacts, a.last_contact_id,
                             ids \o a.ids)

\* AddressBook.loads without self.contacts.clear()
BookLoadsNoClear(contacts, next, document) ==
    IF "object" \notin DOMAIN document
    THEN BookResult("JSONDecodeError", contacts, next, None, <<>>)
    ELSE LoadsItems(document.object, contacts, next, <<>>)

\* AddressBook.loads.  Line 249 assigns self.last_contacts_id, an attribute
\* nothing reads: self.last_contact_id keeps its value.  A text that is not
\* JSON makes json.loads raise JSONDecodeError after the clear.
BookLoads(contacts, next, document) ==
    IF "object" \notin DOMAIN document
    THEN BookResult("JSONDecodeError", <<>>, next, None, <<>>)
    ELSE LoadsItems(document.object, <<>>, next, <<>>)

(***************************************************************************)
(* Inputs of the operations.                                               *)
(***************************************************************************)
PHONE_A == <<"0", "6", "7", "1", "2", "3", "4", "5", "6", "7">>
PHONE_B == <<"+", "4", "8", " ", "(", "0", "5", "0", ")",
             "7", "6", "5", "4", "3", "2", "1">>
MAIL == <<"a", "@", "b", ".", "c">>
LEAP_DAY == <<"2", "9", ".", "0", "2", ".", "2", "0", "2", "0">>
NO_DAY == <<"3", "1", ".", "0", "2", ".", "2", "0", "2", "0">>
SPACE == <<" ">>

\* raw values given to the field constructors and to Contact.update
RawValues == {PHONE_A, PHONE_B, MAIL, LEAP_DAY, NO_DAY, SPACE}

\* substrings searched for
SearchValues == {<<"0", "6", "7">>, <<"0", "5", "0">>, <<"@">>}

\* keyword dicts given to Contact.multiple_search
SearchItems ==
    {<<>>, [Phone |-> <<"0", "5", "0">>],
     [Phone |-> <<"0", "6", "7">>, Email |-> <<"@">>]}

NotANumber == [str |-> <<"a", "b", "c">>]

\* index arguments of the Contact methods
Indexes ==
    {[int |-> i] : i \in (0 - MaxFields - 1)..MaxFields}
        \cup {NotANumber, [str |-> <<"1">>]}

\* id arguments of AddressBook.delete
IdArguments ==
    {[int |-> i] : i \in 0..MaxId} \cup {NotANumber, [str |-> <<"1">>]}

\* the fields the constructors build from the raw values
ValidFields ==
    {NewField(kv[1], kv[2]).field :
        kv \in {x \in REGISTERED_FIELDS \X RawValues :
                    NewField(x[1], x[2]).exc = NoExc}}

\* a contact built as the application builds it: one Contact.add per field
RECURSIVE MakeContact(_)
MakeContact(inputs) ==
    IF inputs = <<>> THEN <<>>
    ELSE ContactAdd(MakeContact(SubSeq(inputs, 1, Len(inputs) - 1)),
                    NewField(inputs[Len(inputs)][1],
                             inputs[Len(inputs)][2]).field).fields

\* contacts given to AddressBook.add and AddressBook.replace
ContactPool ==
    {MakeContact(<<>>),
     MakeContact(<< <<Name, MAIL>>, <<Phone, PHONE_B>>, <<Phone, PHONE_A>> >>)}

FieldDict(field_name, value) == [field_name |-> field_name, value |-> value]

\* contact entries of the documents given to AddressBook.loads
DocEntries ==
    {[fields |-> <<FieldDict(Note, SPACE), FieldDict(Phone, PHONE_A)>>],
     [fields |-> <<FieldDict(Name, MAIL), FieldDict("Bogus", MAIL)>>],
     [fields |-> <<[field_name |-> Email]>>],
     [fields |-> <<[value |-> MAIL]>>],
     [fields |-> <<FieldDict(Phone, MAIL)>>],
     [other |-> <<>>]}

RECURSIVE SeqsUpTo(_, _)
SeqsUpTo(S, n) ==
    IF n = 0 THEN {<<>>}
    ELSE LET shorter == SeqsUpTo(S, n - 1)
         IN  shorter \cup {Append(q, x) : q \in shorter, x \in S}

\* the members of an object whose values are entries, keyed "0", "1", ...
RECURSIVE Keyed(_)
Keyed(entries) ==
    IF entries = <<>> THEN <<>>
    ELSE Keyed(SubSeq(entries, 1, Len(entries) - 1))
         \o <<[key |-> IntToStr(Len(entries) - 1),
               value |-> entries[Len(entries)]]>>

NotJson == [text |-> <<"{">>]

\* documents given to AddressBook.loads, besides what dumps has written
Documents ==
    {[object |-> Keyed(e)] : e \in SeqsUpTo(DocEntries, MaxDocLen)}
        \cup {NotJson}

(***************************************************************************)
(* State.                                                                  *)
(***************************************************************************)
VARIABLES
    fields,           \* Contact.fields of the contact the field calls act on
    contacts,         \* AddressBook.contacts
    last_contact_id,  \* AddressBook.last_contact_id
    issued,           \* ids AddressBook.add returned since the last call of
                      \* clear or loads, in the order of the calls
    last              \* the last call: [op, args, exc, ret]

vars == <<fields, contacts, last_contact_id, issued, last>>

Call(op, args, exc, ret) == [op |-> op, args |-> args, exc |-> exc, ret |-> ret]

\* Contact() and AddressBook()
Init ==
    /\ fields = <<>>
    /\ contacts = <<>>
    /\ last_contact_id = 0
    /\ issued = <<>>
    /\ last = Call("init", <<>>, NoExc, None)

BookUnchanged == UNCHANGED <<contacts, last_contact_id, issued>>

(***************************************************************************)
(* Calls on the Contact.                                                   *)
(***************************************************************************)
\* a field constructor that raises: no field, no further call
CallNewFieldRaises(field_description, value) ==
    /\ NewField(field_description, value).exc # NoExc
    /\ last' = Call("Field", <<field_description, value>>,
                    NewField(field_description, value).exc, None)
    /\ UNCHANGED fields
    /\ BookUnchanged

\* the result r of a Contact method called as op(args)
ContactCall(op, args, r) ==
    /\ fields' = r.fields
    /\ last' = Call(op, args, r.exc, r.ret)
    /\ BookUnchanged

CallContactAdd(field_item) ==
    /\ Len(fields) < MaxFields
    /\ ContactCall("add", <<field_item>>, ContactAdd(fields, field_item))

CallContactReplace(index, field_item) ==
    ContactCall("replace", <<index, field_item>>,
                ContactReplace(fields, index, field_item))

CallContactDelete(idx) ==
    ContactCall("delete", <<idx>>, ContactDelete(fields, idx))

CallContactUpdate(field_idx, value) ==
    ContactCall("update", <<field_idx, value>>,
                ContactUpdate(fields, field_idx, value))

CallFieldSearch(field_name, search_value) ==
    ContactCall("field_search", <<field_name, search_value>>,
                Result(NoExc, fields,
                       field_search(fields, field_name, search_value)))

CallMultipleSearch(search_items) ==
    ContactCall("multiple_search", <<search_items>>,
                Result(NoExc, fields, multiple_search(fields, search_items)))

CallName ==
    ContactCall("name", <<>>, Result(NoExc, fields, name(fields)))

CallGetPhone ==
    ContactCall("get_phone", <<>>, Result(NoExc, fields, get_phone(fields)))

CallGetBirthday ==
    ContactCall("get_birthday", <<>>,
                Result(NoExc, fields, get_birthday(fields)))

CallGetMail ==
    ContactCall("get_mail", <<>>, Result(NoExc, fields, get_mail(fields)))

CallGetNote ==
    ContactCall("get_note", <<>>, Result(NoExc, fields, get_note(fields)))

NextContact ==
    \/ \E k \in REGISTERED_FIELDS, v \in RawValues : CallNewFieldRaises(k, v)
    \/ \E f \in ValidFields : CallContactAdd(f)
    \/ \E i \in Indexes, f \in ValidFields : CallContactReplace(i, f)
    \/ \E i \in Indexes : CallContactDelete(i)
    \/ \E i \in Indexes, v \in RawValues : CallContactUpdate(i, v)
    \/ \E k \in REGISTERED_FIELDS, v \in SearchValues : CallFieldSearch(k, v)
    \/ \E q \in SearchItems : CallMultipleSearch(q)
    \/ CallName
    \/ CallGetPhone
    \/ CallGetBirthday
    \/ CallGetMail
    \/ CallGetNote

SpecContact == Init /\ [][NextContact]_vars

(***************************************************************************)
(* Calls on the AddressBook.                                               *)
(***************************************************************************)
\* the result r of an AddressBook method called as op(args); the ids it
\* made add return follow those issued since the last clear or loads
BookCall(op, args, r) ==
    /\ contacts' = r.contacts
    /\ last_contact_id' = r.last_contact_id
    /\ issued' = IF op \in {"clear", "loads"} THEN r.ids ELSE issued \o r.ids
    /\ last' = Call(op, args, r.exc, r.ret)
    /\ UNCHANGED fields

CallBookAdd(contact) ==
    /\ last_contact_id < MaxId
    /\ BookCall("add", <<contact>>, BookAdd(contacts, last_contact_id, contact))

CallBookReplace(contact_id, contact) ==
    BookCall("replace", <<contact_id, contact>>,
             BookReplace(contacts, last_contact_id, contact_id, contact))

CallBookDelete(contact_id) ==
    BookCall("delete", <<contact_id>>,
             BookDelete(contacts, last_contact_id, contact_id))

CallBookClear ==
    BookCall("clear", <<>>, BookClear(contacts, last_contact_id))

CallBookDumps ==
    BookCall("dumps", <<>>,
             BookResult(NoExc, contacts, last_contact_id,
                        BookDumps(contacts), <<>>))

CallBookLoads(document) ==
    /\ BookLoads(contacts, last_contact_id, document).last_contact_id <= MaxId
    /\ BookCall("loads", <<document, Len(contacts)>>,
                BookLoads(contacts, last_contact_id, document))

NextBook ==
    \/ \E c \in ContactPool : CallBookAdd(c)
    \/ \E i \in 0..MaxId, c \in ContactPool : CallBookReplace(i, c)
    \/ \E i \in IdArguments : CallBookDelete(i)
    \/ CallBookClear
    \/ CallBookDumps
    \/ \E d \in Documents \cup {[object |-> BookDumps(contacts)]} :
           CallBookLoads(d)

SpecBook == Init /\ [][NextBook]_vars

Next == NextContact \/ NextBook

Spec == Init /\ [][Next]_vars

(***************************************************************************)
(* Properties of the AddressBook (SpecBook).                               *)
(***************************************************************************)
Increasing(ids) ==
    \A i \in 1..Len(ids) : \A j \in 1..Len(ids) : i < j => ids[i] < ids[j]

HasKind(fields_, field_name) ==
    \E i \in 1..Len(fields_) : fields_[i].field_description = field_name

\* C1: after a successful loads of a document with n entries the keys are
\* 0..n-1 in document order and last_contact_id is n, whatever the book
\* held before.
C1_LoadsRenumbersFromZero ==
    (last.op = "loads" /\ last.exc = NoExc) =>
        /\ Len(contacts) = Len(last.args[1].object)
        /\ \A i \in 1..Len(contacts) : contacts[i].id = i - 1
        /\ last_contact_id = Len(contacts)

\* C2: every key of contacts is a non-negative integer below last_contact_id.
C2_KeysBelowNextId ==
    \A i \in 1..Len(contacts) :
        contacts[i].id \in Nat /\ contacts[i].id < last_contact_id

\* a loads that aborted after adding, in a book whose counter had advanced
C2_Witness ==
    /\ last.op = "loads"
    /\ last.exc # NoExc
    /\ contacts # <<>>
    /\ last_contact_id > Len(contacts)

\* C3: between two calls of clear or loads the ids add returns are strictly
\* increasing, and an add returns an id that is not a key and leaves the
\* items of contacts as they were.
C3_AddIdsIncrease ==
    [][/\ Increasing(issued')
       /\ last'.op = "add" =>
            /\ last'.ret \notin Keys(contacts)
            /\ \A j \in 1..Len(issued) : issued[j] < last'.ret
            /\ \A i \in 1..Len(contacts) : contacts'[i] = contacts[i]]_vars

\* an add after the contact of an earlier add was deleted
C3_Witness ==
    /\ last.op = "add"
    /\ Len(issued) >= 2
    /\ \E j \in 1..Len(issued) : issued[j] \notin Keys(contacts)

\* C4: loads(dumps()) succeeds and gives as many contacts, with the same
\* (kind, value) pairs in the same order, contact by contact in document
\* order.
C4_RoundTrip ==
    LET r == BookLoads(contacts, last_contact_id,
                       [object |-> BookDumps(contacts)])
    IN  /\ r.exc = NoExc
        /\ Len(r.contacts) = Len(contacts)
        /\ \A i \in 1..Len(contacts) :
             /\ Len(r.contacts[i].contact) = Len(contacts[i].contact)
             /\ \A j \in 1..Len(contacts[i].contact) :
                  /\ r.contacts[i].contact[j].field_description
                       = contacts[i].contact[j].field_description
                  /\ r.contacts[i].contact[j].value
                       = contacts[i].contact[j].value

\* a book the round trip is applied to: two different contacts whose ids
\* have a gap, the second with phones in canonical form
C4_Witness ==
    /\ Len(contacts) = 2
    /\ contacts[2].id # contacts[1].id + 1
    /\ contacts[1].contact # contacts[2].contact
    /\ HasKind(contacts[2].contact, Phone)

\* a field of a document that fails to decode
FailsToDecode(field_dict) ==
    \/ "field_name" \notin DOMAIN field_dict
    \/ "value" \notin DOMAIN field_dict
    \/ field_dict.field_name \notin REGISTERED_FIELDS

\* the field of a document from which the constructor builds a field
Constructs(field_dict) ==
    /\ ~FailsToDecode(field_dict)
    /\ NewField(field_dict.field_name, field_dict.value).exc = NoExc

\* an entry whose fields are all built
EntryLoads(entry) ==
    /\ "fields" \in DOMAIN entry
    /\ \A j \in 1..Len(entry.fields) : Constructs(entry.fields[j])

\* an entry in which loads comes to a field that fails to decode
EntryFailsToDecode(entry) ==
    /\ "fields" \in DOMAIN entry
    /\ \E j \in 1..Len(entry.fields) :
         /\ FailsToDecode(entry.fields[j])
         /\ \A i \in 1..(j - 1) : Constructs(entry.fields[i])

\* the k-th entry is where loads meets a field that fails to decode
FailsAtEntry(document, k) ==
    /\ "object" \in DOMAIN document
    /\ k \in 1..Len(document.object)
    /\ \A i \in 1..(k - 1) : EntryLoads(document.object[i].value)
    /\ EntryFailsToDecode(document.object[k].value)

\* the fields the constructors build from an entry that loads
FieldsOfEntry(entry) ==
    [j \in 1..Len(entry.fields) |->
        NewField(entry.fields[j].field_name, entry.fields[j].value).field]

\* C6: when the k-th entry holds the field that fails to decode, loads
\* raises FieldDecodeError and the book holds the contacts of the k-1
\* entries before it and nothing else.
C6_DecodeErrorKeepsPrefix ==
    last.op = "loads" =>
        \A k \in 1..(MaxDocLen + 1) :
            FailsAtEntry(last.args[1], k) =>
                /\ last.exc = FieldDecodeError
                /\ Len(contacts) = k - 1
                /\ \A i \in 1..(k - 1) :
                     contacts[i].contact
                        = FieldsOfEntry(last.args[1].object[i].value)

\* loads into a book that held contacts, aborted at the second entry
C6_Witness ==
    /\ last.op = "loads"
    /\ FailsAtEntry(last.args[1], 2)
    /\ last.args[2] >= 1
    /\ Len(contacts) = 1
    /\ contacts[1].contact # <<>>

(***************************************************************************)
(* Properties of the Contact and of the fields (SpecContact).              *)
(***************************************************************************)
InBounds(index, n) == IsInt(index) /\ 0 <= index.int /\ index.int < n

\* C5: field_search(kind, substring) is true exactly when some field of
\* that kind, at any position, has a value containing the substring.
C5_FieldSearchAnyField ==
    last.op = "field_search" =>
        (last.ret <=>
            \E i \in 1..Len(fields) :
                /\ fields[i].field_description = last.args[1]
                /\ StrContains(fields[i].value, last.args[2]))

\* C7: replace, delete and update with an integer index outside
\* 0 <= index < len(fields) raise IndexError and leave fields unchanged.
C7_OutOfBoundsIndexError ==
    [][(/\ last'.op \in {"replace", "delete", "update"}
        /\ IsInt(last'.args[1])
        /\ ~InBounds(last'.args[1], Len(fields)))
          => (last'.exc = IndexError /\ fields' = fields)]_vars

\* C8: a Phone, Email or Birthday constructor given a value that fails the
\* validation, and update given such a value at a valid index, raise the
\* validation error of the kind; update then leaves the field unchanged.
C8_ValidationError ==
    [][/\ last'.op = "Field" => last'.exc \in ValidationErrors
       /\ (/\ last'.op = "update"
           /\ InBounds(last'.args[1], Len(fields))
           /\ Validate(fields[last'.args[1].int + 1].field_description,
                       last'.args[2]).exc # NoExc)
            => (last'.exc \in ValidationErrors /\ fields' = fields)]_vars

\* C9: replace, delete and update given an index that does not parse as an
\* integer raise IncorrectInput "Index value is not integer!" and leave
\* fields unchanged.
C9_InvalidIndex ==
    [][(/\ last'.op \in {"replace", "delete", "update"}
        /\ PyInt(last'.args[1]).exc = ValueError)
          => (last'.exc = IndexNotInteger /\ fields' = fields)]_vars

\* C10: without a field of the kind, name() is "No name" and get_phone(),
\* get_birthday(), get_mail() and get_note() are the empty string.
C10_Fallbacks ==
    /\ (last.op = "name" /\ ~HasKind(fields, Name))
         => last.ret = <<"N", "o", " ", "n", "a", "m", "e">>
    /\ (last.op = "get_phone" /\ ~HasKind(fields, Phone)) => last.ret = <<>>
    /\ (last.op = "get_birthday" /\ ~HasKind(fields, Birthday))
         => last.ret = <<>>
    /\ (last.op = "get_mail" /\ ~HasKind(fields, Email)) => last.ret = <<>>
    /\ (last.op = "get_note" /\ ~HasKind(fields, Note)) => last.ret = <<>>

====
